---- MODULE Spec2Model ----
(***************************************************************************)
(* Room membership and broadcast core of the hyperchat relay.  Two         *)
(* variants of the server are modelled side by side:                       *)
(*   - src/server.js           (variables users, rooms, userSocketRooms)   *)
(*   - src/unnamed/part_000    (variables p_users, p_rooms, p_username,    *)
(*                              p_currentRoomId)                           *)
(* The variable variant says which of the two programs is running; the     *)
(* variables of the other program stay at their initial value.  Node runs  *)
(* one handler to completion before the next, so every handler is one step.*)
(***************************************************************************)
EXTENDS Integers, Sequences, FiniteSets, TLC

\* ---------------------------------------------------------------- bounds
NumConn == 2      \* connections that ever connect
MaxTime == 1      \* Date.now() ranges over 0..MaxTime
MaxChatHist == 3  \* the same bound where only the chat events are observed
MaxHist == 2      \* a handler that would bring the history entries kept past this is not taken
MaxRooms == 1     \* a handler that would bring the created rooms past this is not taken

Conns == 1..NumConn

\* ------------------------------------------------- values and JS helpers
\* JS null / undefined.  No input below trims to this string.
NULL == "<null>"

GENERAL_ROOM_ID == "general"

\* if (x) on a string-or-null value
Truthy(x) == x # NULL /\ x # ""

\* `${x}` of a string-or-null value
Show(x) == IF x = NULL THEN "null" ELSE x

\* socket.id; socket.io puts every socket in a room named by its own id
SocketId(c) == "sock-" \o ToString(c)

\* A client string is a sequence of chunks, each one whitespace character
\* or a run of non-whitespace characters.
Whitespace == {" "}

RECURSIVE trimStart(_)
trimStart(s) ==
  IF s # <<>> /\ Head(s) \in Whitespace THEN trimStart(Tail(s)) ELSE s

RECURSIVE trimEnd(_)
trimEnd(s) ==
  IF s # <<>> /\ s[Len(s)] \in Whitespace
  THEN trimEnd(SubSeq(s, 1, Len(s) - 1)) ELSE s

RECURSIVE Join(_)
Join(s) == IF s = <<>> THEN "" ELSE Head(s) \o Join(Tail(s))

\* String.prototype.trim
trim(s) == Join(trimEnd(trimStart(s)))

\* ------------------------------------------------------- client inputs
RawUsernames == { <<" ">>, <<"alice", " ">>, <<"bob">> }
\* create room payloads {name, pin}
RawRooms ==
  { [name |-> <<" ">>, pin |-> <<"1234">>],
    [name |-> <<"Plans">>, pin |-> <<" ">>],
    [name |-> <<"Plans">>, pin |-> <<"1234", " ">>],
    [name |-> <<"general">>, pin |-> <<"general">>] }
RawPins == { <<>>, <<" ", "1234">>, <<"general">> }
Texts == { "hi" }
ClientTimestamps == { 0 }

RoomIdAt(t) == "room-" \o ToString(t)

\* room ids a client may name in switch room
RoomIdInputs == { GENERAL_ROOM_ID, "1234", RoomIdAt(0) }
\* room a client may put in a chat payload
PayloadRooms == { GENERAL_ROOM_ID, "1234" }

VARIABLES
  variant,          \* "server" (src/server.js) or "part" (src/unnamed/part_000)
  conn,             \* transport: conn[c] is "new", "live" or "gone"
  now,              \* Date.now()
  io,               \* socket.io adapter: io[c] = rooms socket c has joined
  observe,          \* what of out is kept: "none", "all" or "chat" (never changed)
  out,              \* notifications emitted by the last handler, in order
  users,            \* server.js: socket -> [username, currentRoomId]
  rooms,            \* server.js: roomId -> [name, pin, history, usersInRoom]
  userSocketRooms,  \* server.js: socket -> set of room ids
  p_users,          \* part_000: array of [id, username]
  p_rooms,          \* part_000: Map in insertion order, [id, name, pin, history, users]
  p_username,       \* part_000: socket.username
  p_currentRoomId   \* part_000: socket.currentRoomId

vars == << variant, observe, conn, now, io, out, users, rooms, userSocketRooms,
           p_users, p_rooms, p_username, p_currentRoomId >>

serverVars == << users, rooms, userSocketRooms >>
partVars   == << p_users, p_rooms, p_username, p_currentRoomId >>

\* ------------------------------------------------------- notifications
\* the events that carry a room's chat: messages, actions, system lines
IsChat(e) == e.ev \in {"chat message", "chat action"}

\* What an observer of the last handler's notifications sees: all of them,
\* the chat events only, or nothing.
Observed(o) ==
  IF observe = "all" THEN o
  ELSE IF observe = "chat" THEN SelectSeq(o, IsChat)
  ELSE <<>>

\* The history entries kept: the chat observer's runs go one entry deeper.
HistBudget == IF observe = "chat" THEN MaxChatHist ELSE MaxHist

Emit(to, ev, data) == [to |-> to, ev |-> ev, data |-> data]

\* io.to(roomId): the sockets currently joined to roomId
InRoom(i, roomId) == {c \in Conns : roomId \in i[c]}

\* io.emit: every connected socket
Connected(i) == {c \in Conns : SocketId(c) \in i[c]}

\* Map.delete
MapDelete(m, k) == [x \in DOMAIN m \ {k} |-> m[x]]

\* Map.set
MapSet(m, k, v) == [x \in DOMAIN m \cup {k} |-> IF x = k THEN v ELSE m[x]]

\* =====================================================================
\* src/server.js
\* =====================================================================

\* The handlers work on the state as a record
\*   [users, rooms, userSocketRooms, io, out]
\* so that joinRoom and leaveRoom compose the way the calls do.
ServerState ==
  [users |-> users, rooms |-> rooms, userSocketRooms |-> userSocketRooms,
   io |-> io, out |-> <<>>]

\* Insertion order of the rooms Map: 'general' first, then creation time.
RoomOrder(rs) ==
  LET all == [i \in 1..(MaxTime + 2) |->
                IF i = 1 THEN GENERAL_ROOM_ID ELSE RoomIdAt(i - 2)]
      Present(id) == id \in DOMAIN rs
  IN SelectSeq(all, Present)

getUsersInRoom(rs, roomId) ==
  IF roomId \in DOMAIN rs THEN rs[roomId].usersInRoom ELSE {}

broadcastUserList(S, roomId) ==
  [S EXCEPT !.out = Append(@,
     Emit(InRoom(S.io, roomId), "update user list",
          [room |-> roomId, users |-> getUsersInRoom(S.rooms, roomId)]))]

availableRooms(rs) ==
  LET order == RoomOrder(rs)
  IN [i \in 1..Len(order) |->
        [id |-> order[i], name |-> rs[order[i]].name,
         hasPin |-> rs[order[i]].pin # NULL]]

broadcastRoomList(S) ==
  [S EXCEPT !.out = Append(@,
     Emit(Connected(S.io), "update room list", availableRooms(S.rooms)))]

feedback(S, c, text) ==
  [S EXCEPT !.out = Append(@, Emit({c}, "room action feedback", text))]

\* The test below without its second half: what forgetting to exempt
\* 'general' would do.
emptyAndNotGeneral_DropsGeneralTest(rs, roomId) ==
  rs[roomId].usersInRoom = {}

\* "If the room is empty and not the general room, delete it"
emptyAndNotGeneral(rs, roomId) ==
  rs[roomId].usersInRoom = {} /\ roomId # GENERAL_ROOM_ID

leaveRoom(S, c, roomId, isDisconnect) ==
  IF c \notin DOMAIN S.users \/ roomId \notin DOMAIN S.rooms THEN S
  ELSE
    LET userData == S.users[c]
        leaveMessage ==
          [type |-> "system",
           text |-> "<strong>" \o Show(userData.username)
                      \o "</strong> has left the room.",
           timestamp |-> now, room |-> roomId]
        S1 == [S EXCEPT
                 !.io[c] = @ \ {roomId},
                 !.userSocketRooms[c] = @ \ {roomId},
                 !.rooms[roomId].usersInRoom = @ \ {userData.username},
                 !.rooms[roomId].history = Append(@, leaveMessage)]
        S2 == [S1 EXCEPT !.out = Append(@,
                 Emit(InRoom(S1.io, roomId), "chat message", leaveMessage))]
        S3 == broadcastUserList(S2, roomId)
        S4 == IF emptyAndNotGeneral(S3.rooms, roomId)
              THEN broadcastRoomList(
                     [S3 EXCEPT !.rooms = MapDelete(@, roomId)])
              ELSE S3
    IN IF isDisconnect THEN S4
       ELSE [S4 EXCEPT !.users[c].currentRoomId = NULL]

\* joinRefusal without its first test: what forgetting the username check
\* would do.
joinRefusal_SkipsUsernameTest(S, c, roomId, pin) ==
  IF roomId \notin DOMAIN S.rooms
  THEN "Room does not exist."
  ELSE IF /\ Truthy(S.rooms[roomId].pin)
          /\ S.rooms[roomId].pin # pin
          /\ roomId # GENERAL_ROOM_ID
  THEN "Incorrect PIN for this room."
  ELSE IF S.users[c].currentRoomId = roomId
  THEN "You are already in '" \o S.rooms[roomId].name \o "'."
  ELSE NULL

\* The checks joinRoom makes before it changes anything: the feedback it
\* answers with, or NULL when the join goes ahead.
joinRefusal(S, c, roomId, pin) ==
  IF c \notin DOMAIN S.users \/ ~Truthy(S.users[c].username)
  THEN "Please set your username first."
  ELSE IF roomId \notin DOMAIN S.rooms
  THEN "Room does not exist."
  ELSE IF /\ Truthy(S.rooms[roomId].pin)
          /\ S.rooms[roomId].pin # pin
          /\ roomId # GENERAL_ROOM_ID
  THEN "Incorrect PIN for this room."
  ELSE IF S.users[c].currentRoomId = roomId
  THEN "You are already in '" \o S.rooms[roomId].name \o "'."
  ELSE NULL

\* joinRoom sending the history as it was before the join line was pushed:
\* what emitting 'room joined success' ahead of the push would do.
joinRoom_SnapshotBeforePush(S, c, roomId, pin) ==
  IF joinRefusal(S, c, roomId, pin) # NULL
  THEN feedback(S, c, joinRefusal(S, c, roomId, pin))
  ELSE
    LET S1 == IF Truthy(S.users[c].currentRoomId)
              THEN leaveRoom(S, c, S.users[c].currentRoomId, FALSE)
              ELSE S
        username == S1.users[c].username
        joinMessage ==
          [type |-> "system",
           text |-> "<strong>" \o username \o "</strong> has joined the room.",
           timestamp |-> now, room |-> roomId]
        S2 == [S1 EXCEPT
                 !.io[c] = @ \cup {roomId},
                 !.users[c].currentRoomId = roomId,
                 !.userSocketRooms[c] = @ \cup {roomId},
                 !.rooms[roomId].usersInRoom = @ \cup {username},
                 !.rooms[roomId].history = Append(@, joinMessage)]
        S3 == [S2 EXCEPT !.out = @ \o
                 << Emit({c}, "room joined success",
                         [roomName |-> S2.rooms[roomId].name,
                          roomId |-> roomId,
                          history |-> S1.rooms[roomId].history,
                          usersInRoom |-> getUsersInRoom(S2.rooms, roomId)]),
                    Emit(InRoom(S2.io, roomId) \ {c}, "chat message",
                         joinMessage) >>]
    IN broadcastUserList(S3, roomId)

joinRoom(S, c, roomId, pin) ==
  IF joinRefusal(S, c, roomId, pin) # NULL
  THEN feedback(S, c, joinRefusal(S, c, roomId, pin))
  ELSE
    LET S1 == IF Truthy(S.users[c].currentRoomId)
              THEN leaveRoom(S, c, S.users[c].currentRoomId, FALSE)
              ELSE S
        username == S1.users[c].username
        joinMessage ==
          [type |-> "system",
           text |-> "<strong>" \o username \o "</strong> has joined the room.",
           timestamp |-> now, room |-> roomId]
        S2 == [S1 EXCEPT
                 !.io[c] = @ \cup {roomId},
                 !.users[c].currentRoomId = roomId,
                 !.userSocketRooms[c] = @ \cup {roomId},
                 !.rooms[roomId].usersInRoom = @ \cup {username},
                 !.rooms[roomId].history = Append(@, joinMessage)]
        S3 == [S2 EXCEPT !.out = @ \o
                 << Emit({c}, "room joined success",
                         [roomName |-> S2.rooms[roomId].name,
                          roomId |-> roomId,
                          history |-> S2.rooms[roomId].history,
                          usersInRoom |-> getUsersInRoom(S2.rooms, roomId)]),
                    Emit(InRoom(S2.io, roomId) \ {c}, "chat message",
                         joinMessage) >>]
    IN broadcastUserList(S3, roomId)

RECURSIVE SumLen(_)
SumLen(hs) == IF hs = <<>> THEN 0 ELSE Len(Head(hs)) + SumLen(Tail(hs))

\* The histories of all rooms together hold at most MaxHist entries.
HistoryBounded(rs) ==
  LET order == RoomOrder(rs)
  IN SumLen([i \in 1..Len(order) |-> rs[order[i]].history]) <= HistBudget

\* The handler ran on socket c and left the state S.
ServerCommit(S) ==
  /\ HistoryBounded(S.rooms)
  /\ Cardinality(DOMAIN S.rooms) <= MaxRooms + 1
  /\ users' = S.users
  /\ rooms' = S.rooms
  /\ userSocketRooms' = S.userSocketRooms
  /\ io' = S.io
  /\ out' = Observed(S.out)
  /\ UNCHANGED << variant, observe, conn, now, partVars >>

ServerLive(c) == variant = "server" /\ conn[c] = "live"

\* io.on('connection')
\* Socket ids are fresh: the connections are numbered in the order they arrive.
NextConnection(c) ==
  conn[c] = "new" /\ \A d \in Conns : d < c => conn[d] # "new"

Connect(c) ==
  /\ variant = "server"
  /\ NextConnection(c)
  /\ conn' = [conn EXCEPT ![c] = "live"]
  /\ LET S == broadcastRoomList(
                [ServerState EXCEPT
                   !.users = MapSet(@, c, [username |-> NULL,
                                           currentRoomId |-> NULL]),
                   !.userSocketRooms = MapSet(@, c, {}),
                   !.io[c] = {SocketId(c)}])
     IN /\ users' = S.users
        /\ rooms' = S.rooms
        /\ userSocketRooms' = S.userSocketRooms
        /\ io' = S.io
        /\ out' = Observed(S.out)
  /\ UNCHANGED << variant, observe, now, partVars >>

\* Is the name held by a user that is in a room?
isUsernameTaken(us, name) ==
  \E u \in DOMAIN us : us[u].username = name /\ us[u].currentRoomId # NULL

\* the body of the 'set initial username' handler, run on state S
onSetInitialUsername(S, c, newUsername) ==
  LET trimmedUsername == trim(newUsername)
  IN IF ~Truthy(trimmedUsername)
     THEN feedback(S, c, "Username cannot be empty.")
     ELSE IF isUsernameTaken(S.users, trimmedUsername)
     THEN feedback(S, c, "Username '" \o trimmedUsername
            \o "' is already taken. Please choose another.")
     ELSE joinRoom(
            [S EXCEPT !.users[c].username = trimmedUsername,
                      !.out = Append(@, Emit({c}, "username accepted",
                                             trimmedUsername))],
            c, GENERAL_ROOM_ID, NULL)

SetInitialUsername(c, newUsername) ==
  /\ ServerLive(c)
  /\ ServerCommit(onSetInitialUsername(ServerState, c, newUsername))

\* onChangeUsername without the delete of the old name: what forgetting
\* room.usersInRoom.delete would do.
onChangeUsername_KeepsOldName(S, c, newUsername) ==
  LET trimmedNewUsername == trim(newUsername)
      oldUserData == S.users[c]
      oldUsername == oldUserData.username
      roomId == oldUserData.currentRoomId
      text == "<strong>"
                \o (IF Truthy(oldUsername) THEN oldUsername ELSE "A user")
                \o "</strong> is now <strong>" \o trimmedNewUsername
                \o "</strong>."
      S1 == [S EXCEPT !.users[c].username = trimmedNewUsername,
                      !.out = Append(@, Emit({c}, "username updated",
                                             trimmedNewUsername))]
      S2 == [S1 EXCEPT
               !.rooms[roomId].usersInRoom = @ \cup {trimmedNewUsername},
               !.rooms[roomId].history = Append(@,
                  [type |-> "system", text |-> text, timestamp |-> now])]
      S3 == broadcastUserList(S2, roomId)
      S4 == [S3 EXCEPT !.out = Append(@,
               Emit(InRoom(S3.io, roomId), "chat message",
                    [room |-> roomId, user |-> "System", text |-> text,
                     timestamp |-> now, type |-> "system"]))]
  IN IF ~Truthy(trimmedNewUsername)
     THEN feedback(S, c, "New username cannot be empty.")
     ELSE IF trimmedNewUsername = oldUsername
     THEN feedback(S, c, "That is already your username.")
     ELSE IF \E u \in DOMAIN S.users :
               /\ S.users[u].username = trimmedNewUsername
               /\ S.users[u].currentRoomId # NULL
               /\ S.users[u].username # oldUsername
     THEN feedback(S, c, "Username '" \o trimmedNewUsername
            \o "' is already taken. Please choose another.")
     ELSE IF Truthy(roomId) /\ roomId \in DOMAIN S.rooms THEN S4
     ELSE S1

\* the body of the 'change username' handler, run on state S
onChangeUsername(S, c, newUsername) ==
  LET trimmedNewUsername == trim(newUsername)
      oldUserData == S.users[c]
      oldUsername == oldUserData.username
      roomId == oldUserData.currentRoomId
      text == "<strong>"
                \o (IF Truthy(oldUsername) THEN oldUsername ELSE "A user")
                \o "</strong> is now <strong>" \o trimmedNewUsername
                \o "</strong>."
      S1 == [S EXCEPT !.users[c].username = trimmedNewUsername,
                      !.out = Append(@, Emit({c}, "username updated",
                                             trimmedNewUsername))]
      S2 == [S1 EXCEPT
               !.rooms[roomId].usersInRoom =
                  (IF Truthy(oldUsername) THEN @ \ {oldUsername} ELSE @)
                    \cup {trimmedNewUsername},
               !.rooms[roomId].history = Append(@,
                  [type |-> "system", text |-> text, timestamp |-> now])]
      S3 == broadcastUserList(S2, roomId)
      S4 == [S3 EXCEPT !.out = Append(@,
               Emit(InRoom(S3.io, roomId), "chat message",
                    [room |-> roomId, user |-> "System", text |-> text,
                     timestamp |-> now, type |-> "system"]))]
  IN IF ~Truthy(trimmedNewUsername)
     THEN feedback(S, c, "New username cannot be empty.")
     ELSE IF trimmedNewUsername = oldUsername
     THEN feedback(S, c, "That is already your username.")
     ELSE IF \E u \in DOMAIN S.users :
               /\ S.users[u].username = trimmedNewUsername
               /\ S.users[u].currentRoomId # NULL
               /\ S.users[u].username # oldUsername
     THEN feedback(S, c, "Username '" \o trimmedNewUsername
            \o "' is already taken. Please choose another.")
     ELSE IF Truthy(roomId) /\ roomId \in DOMAIN S.rooms THEN S4
     ELSE S1

ChangeUsername(c, newUsername) ==
  /\ ServerLive(c)
  /\ ServerCommit(onChangeUsername(ServerState, c, newUsername))

CreatedFeedback(name, pin) ==
  "Room '" \o name \o "' created successfully! PIN: " \o pin

\* the body of the 'create room' handler, run on state S
onCreateRoom(S, c, name, pin) ==
  LET trimmedName == trim(name)
      trimmedPin == trim(pin)
      roomId == RoomIdAt(now)
      S1 == [S EXCEPT !.rooms = MapSet(@, roomId,
               [name |-> trimmedName, pin |-> trimmedPin,
                history |-> <<>>, usersInRoom |-> {}])]
      S2 == feedback(S1, c, CreatedFeedback(trimmedName, trimmedPin))
  IN IF ~Truthy(trimmedName) \/ ~Truthy(trimmedPin)
     THEN feedback(S, c, "Room name and PIN cannot be empty.")
     ELSE IF roomId \in DOMAIN S.rooms
     THEN feedback(S, c,
            "Failed to create room: Room ID already exists.")
     ELSE joinRoom(broadcastRoomList(S2), c, roomId, NULL)

CreateRoom(c, name, pin) ==
  /\ ServerLive(c)
  /\ ServerCommit(onCreateRoom(ServerState, c, name, pin))

\* first room, in Map order, whose pin is the given one; NULL if none
findRoomByPin(rs, pin) ==
  LET order == RoomOrder(rs)
      hits == {i \in 1..Len(order) : rs[order[i]].pin = pin}
  IN IF hits = {} THEN NULL
     ELSE order[CHOOSE i \in hits : \A j \in hits : i <= j]

\* the body of the 'join room by pin' handler, run on state S
onJoinRoomByPin(S, c, pin) ==
  LET trimmedPin == trim(pin)
      foundRoomId == findRoomByPin(S.rooms, trimmedPin)
  IN IF ~Truthy(trimmedPin)
     THEN feedback(S, c, "PIN cannot be empty.")
     ELSE IF Truthy(foundRoomId)
     THEN joinRoom(S, c, foundRoomId, NULL)
     ELSE feedback(S, c, "No room found with that PIN.")

JoinRoomByPin(c, pin) ==
  /\ ServerLive(c)
  /\ ServerCommit(onJoinRoomByPin(ServerState, c, pin))

\* the body of the 'switch room' handler, run on state S
onSwitchRoom(S, c, newRoomId) == joinRoom(S, c, newRoomId, NULL)

SwitchRoom(c, newRoomId) ==
  /\ ServerLive(c)
  /\ ServerCommit(onSwitchRoom(ServerState, c, newRoomId))

\* onLeaveCurrentRoom without the test for 'general': what leaving whatever
\* room the session is in would do.
onLeaveCurrentRoom_LeavesGeneral(S, c) ==
  LET cur == S.users[c].currentRoomId
  IN IF Truthy(cur)
     THEN joinRoom(leaveRoom(S, c, cur, FALSE), c, GENERAL_ROOM_ID, NULL)
     ELSE feedback(S, c, "You are not currently in a room to leave.")

\* the body of the 'leave current room' handler, run on state S
onLeaveCurrentRoom(S, c) ==
  LET cur == S.users[c].currentRoomId
  IN IF Truthy(cur) /\ cur # GENERAL_ROOM_ID
     THEN joinRoom(leaveRoom(S, c, cur, FALSE), c, GENERAL_ROOM_ID, NULL)
     ELSE IF cur = GENERAL_ROOM_ID
     THEN feedback(S, c, "You cannot leave the General room. You can only switch to another room.")
     ELSE feedback(S, c, "You are not currently in a room to leave.")

LeaveCurrentRoom(c) ==
  /\ ServerLive(c)
  /\ ServerCommit(onLeaveCurrentRoom(ServerState, c))

\* postEvent putting the event at the head of the history: what unshift in
\* place of push would do.
postEvent_Unshifts(S, c, kind, ev, text, timestamp) ==
  LET userData == S.users[c]
      currentRoomId == userData.currentRoomId
      data == [user |-> userData.username, text |-> text,
               timestamp |-> timestamp, room |-> currentRoomId,
               type |-> kind]
  IN IF /\ Truthy(currentRoomId) /\ Truthy(userData.username)
        /\ currentRoomId \in DOMAIN S.rooms
     THEN [S EXCEPT
             !.rooms[currentRoomId].history = << data >> \o @,
             !.out = Append(@, Emit(InRoom(S.io, currentRoomId), ev, data))]
     ELSE S

\* 'chat message' (kind "message") and 'chat action' (kind "action")
postEvent(S, c, kind, ev, text, timestamp) ==
  LET userData == S.users[c]
      currentRoomId == userData.currentRoomId
      data == [user |-> userData.username, text |-> text,
               timestamp |-> timestamp, room |-> currentRoomId,
               type |-> kind]
  IN IF /\ Truthy(currentRoomId) /\ Truthy(userData.username)
        /\ currentRoomId \in DOMAIN S.rooms
     THEN [S EXCEPT
             !.rooms[currentRoomId].history = Append(@, data),
             !.out = Append(@, Emit(InRoom(S.io, currentRoomId), ev, data))]
     ELSE S

ChatMessage(c, text, timestamp) ==
  /\ ServerLive(c)
  /\ ServerCommit(
       postEvent(ServerState, c, "message", "chat message", text, timestamp))

ChatAction(c, text, timestamp) ==
  /\ ServerLive(c)
  /\ ServerCommit(
       postEvent(ServerState, c, "action", "chat action", text, timestamp))

\* Disconnect without the leave: what dropping the session at once would do.
Disconnect_SkipsLeave(c) ==
  /\ ServerLive(c)
  /\ conn' = [conn EXCEPT ![c] = "gone"]
  /\ users' = MapDelete(users, c)
  /\ userSocketRooms' = MapDelete(userSocketRooms, c)
  /\ io' = [io EXCEPT ![c] = {}]
  /\ out' = <<>>
  /\ UNCHANGED << variant, observe, now, rooms, partVars >>

\* socket.on('disconnect'): the socket has already left every adapter room
Disconnect(c) ==
  /\ ServerLive(c)
  /\ conn' = [conn EXCEPT ![c] = "gone"]
  /\ LET S == [ServerState EXCEPT !.io[c] = {}]
         cur == S.users[c].currentRoomId
         S1 == IF Truthy(cur) THEN leaveRoom(S, c, cur, TRUE) ELSE S
         S2 == [S1 EXCEPT !.users = MapDelete(@, c),
                          !.userSocketRooms = MapDelete(@, c)]
     IN /\ HistoryBounded(S2.rooms)
        /\ users' = S2.users
        /\ rooms' = S2.rooms
        /\ userSocketRooms' = S2.userSocketRooms
        /\ io' = S2.io
        /\ out' = Observed(S2.out)
  /\ UNCHANGED << variant, observe, now, partVars >>

\* Date.now() advances between handlers.  Only server.js derives state (the
\* room ids) from the clock, and only there is it let advance.
Tick ==
  /\ variant = "server"
  /\ now < MaxTime
  /\ now' = now + 1
  /\ out' = <<>>
  /\ UNCHANGED << variant, observe, conn, io, serverVars, partVars >>

ServerNext ==
  \/ \E c \in Conns : Connect(c)
  \/ \E c \in Conns, n \in RawUsernames : SetInitialUsername(c, n)
  \/ \E c \in Conns, n \in RawUsernames : ChangeUsername(c, n)
  \/ \E c \in Conns, d \in RawRooms : CreateRoom(c, d.name, d.pin)
  \/ \E c \in Conns, p \in RawPins : JoinRoomByPin(c, p)
  \/ \E c \in Conns, r \in RoomIdInputs : SwitchRoom(c, r)
  \/ \E c \in Conns : LeaveCurrentRoom(c)
  \/ \E c \in Conns, t \in Texts, ts \in ClientTimestamps : ChatMessage(c, t, ts)
  \/ \E c \in Conns, t \in Texts, ts \in ClientTimestamps : ChatAction(c, t, ts)
  \/ \E c \in Conns : Disconnect(c)
  \/ Tick

\* =====================================================================
\* src/unnamed/part_000
\* =====================================================================

\* The handlers work on the state as a record
\*   [users, rooms, username, currentRoomId, io, out]
PartState ==
  [users |-> p_users, rooms |-> p_rooms, username |-> p_username,
   currentRoomId |-> p_currentRoomId, io |-> io, out |-> <<>>]

\* rooms.has(id)
p_has(rs, id) == \E i \in 1..Len(rs) : rs[i].id = id

\* position of room id in the Map
p_at(rs, id) == CHOOSE i \in 1..Len(rs) : rs[i].id = id

\* rooms.get(id), for an id the Map has
p_get(rs, id) == rs[p_at(rs, id)]

\* rooms.set(id, room)
p_set(rs, id, room) ==
  IF p_has(rs, id) THEN [rs EXCEPT ![p_at(rs, id)] = room]
  ELSE Append(rs, room)

\* The test below without its first half: what forgetting the size test
\* would do.
p_emptyAndNotGeneral_DropsEmptyTest(room) == room.id # "general"

\* "If a room becomes empty and it's not the 'general' room, remove it"
p_emptyAndNotGeneral(room) == room.users = {} /\ room.id # "general"

\* rooms.delete(id)
p_delete(rs, id) ==
  LET Keep(r) == r.id # id IN SelectSeq(rs, Keep)

getRoomList(rs) ==
  [i \in 1..Len(rs) |->
     [id |-> rs[i].id, name |-> rs[i].name, hasPin |-> Truthy(rs[i].pin)]]

\* Array.from(room.users).map(id => io.sockets.sockets.get(id).username)
p_usernames(P, ids) == [id \in ids |-> P.username[id]]

p_emit(P, to, ev, data) == [P EXCEPT !.out = Append(@, Emit(to, ev, data))]

p_feedback(P, c, text) == p_emit(P, {c}, "room action feedback", text)

\* users.findIndex(u => u.id === socket.id); 0 stands for -1
p_findIndex(us, c) ==
  IF \E i \in 1..Len(us) : us[i].id = c
  THEN CHOOSE i \in 1..Len(us) :
         us[i].id = c /\ \A j \in 1..(i - 1) : us[j].id # c
  ELSE 0

\* "Leave current room if in one", as create room, join room by pin and
\* switch room do it; why is the end of the logged sentence.
p_leaveCurrent(P, c) ==
  LET cur == P.currentRoomId[c]
  IN IF Truthy(cur) /\ p_has(P.rooms, cur)
     THEN
       LET k == p_at(P.rooms, cur)
           P1 == [P EXCEPT !.rooms[k].users = @ \ {c},
                           !.io[c] = @ \ {cur}]
           P2 == p_emit(P1, InRoom(P1.io, cur), "chat message",
                   [room |-> cur, user |-> "System",
                    text |-> Show(P.username[c]) \o " has left the room.",
                    timestamp |-> now])
       IN p_emit(P2, InRoom(P2.io, cur), "update user list",
                 p_usernames(P2, P2.rooms[k].users))
     ELSE P

\* the common tail of join room by pin and switch room
p_enter(P, c, roomId) ==
  LET k == p_at(P.rooms, roomId)
      P1 == [P EXCEPT
               !.io[c] = @ \cup {roomId},
               !.rooms[k].users = @ \cup {c},
               !.currentRoomId[c] = roomId,
               !.rooms[k].history = Append(@,
                  [type |-> "system",
                   text |-> P.username[c] \o " has joined the room.",
                   timestamp |-> now])]
      P2 == p_emit(P1, {c}, "room joined success",
              [roomName |-> P1.rooms[k].name, roomId |-> P1.rooms[k].id,
               history |-> P1.rooms[k].history,
               usersInRoom |-> p_usernames(P1, P1.rooms[k].users)])
  IN p_emit(P2, InRoom(P2.io, roomId), "update user list",
            p_usernames(P2, P2.rooms[k].users))

p_HistoryBounded(rs) ==
  SumLen([i \in 1..Len(rs) |-> rs[i].history]) <= HistBudget

PartCommit(P) ==
  /\ p_HistoryBounded(P.rooms)
  /\ Len(P.rooms) <= MaxRooms + 1
  /\ p_users' = P.users
  /\ p_rooms' = P.rooms
  /\ p_username' = P.username
  /\ p_currentRoomId' = P.currentRoomId
  /\ io' = P.io
  /\ out' = Observed(P.out)
  /\ UNCHANGED << variant, observe, conn, now, serverVars >>

PartLive(c) == variant = "part" /\ conn[c] = "live"

\* io.on('connection')
p_Connect(c) ==
  /\ variant = "part"
  /\ NextConnection(c)
  /\ conn' = [conn EXCEPT ![c] = "live"]
  /\ LET P == p_emit([PartState EXCEPT !.io[c] = {SocketId(c)}],
                     {c}, "update room list", getRoomList(p_rooms))
     IN /\ io' = P.io
        /\ out' = Observed(P.out)
  /\ UNCHANGED << variant, observe, now, serverVars, partVars >>

\* the body of the 'set initial username' handler, run on state P
p_onSetInitialUsername(P, c, newUsername) ==
  LET trimmedUsername == trim(newUsername)
      P1 == [P EXCEPT
               !.username[c] = trimmedUsername,
               !.users = Append(@, [id |-> c, username |-> trimmedUsername])]
      P2 == p_emit(P1, {c}, "username accepted", trimmedUsername)
  IN IF /\ Truthy(trimmedUsername)
        /\ ~\E i \in 1..Len(P.users) : P.users[i].username = trimmedUsername
     THEN p_emit(P2, Connected(P2.io), "update room list",
                 getRoomList(P2.rooms))
     ELSE p_emit(P, {c}, "username rejected",
                 "Username is empty or already taken.")

p_SetInitialUsername(c, newUsername) ==
  /\ PartLive(c)
  /\ PartCommit(p_onSetInitialUsername(PartState, c, newUsername))

\* the loop over the rooms of change username, from room k on
RECURSIVE p_renameRooms(_, _, _, _)
p_renameRooms(P, c, text, k) ==
  IF k > Len(P.rooms) THEN P
  ELSE IF c \in P.rooms[k].users
  THEN
    LET roomId == P.rooms[k].id
        P1 == [P EXCEPT !.rooms[k].history = Append(@,
                 [type |-> "system", text |-> text, timestamp |-> now])]
        P2 == p_emit(P1, InRoom(P1.io, roomId), "chat message",
                [room |-> roomId, user |-> "System", text |-> text,
                 timestamp |-> now])
        P3 == p_emit(P2, InRoom(P2.io, roomId), "update user list",
                p_usernames(P2, P2.rooms[k].users))
    IN p_renameRooms(P3, c, text, k + 1)
  ELSE p_renameRooms(P, c, text, k + 1)

p_ChangeUsername(c, newUsername) ==
  /\ PartLive(c)
  /\ LET trimmedNewUsername == trim(newUsername)
         P == PartState
         oldUsername == P.username[c]
         userIndex == p_findIndex(P.users, c)
         P1 == IF userIndex # 0
               THEN [P EXCEPT !.users[userIndex].username = trimmedNewUsername]
               ELSE P
         P2 == p_renameRooms(P1, c,
                 oldUsername \o " is now " \o trimmedNewUsername \o ".", 1)
         P3 == [P2 EXCEPT !.username[c] = trimmedNewUsername]
     IN PartCommit(
          IF ~Truthy(trimmedNewUsername)
          THEN p_feedback(P, c, "Username cannot be empty.")
          ELSE IF \E i \in 1..Len(P.users) :
                    /\ P.users[i].username = trimmedNewUsername
                    /\ P.users[i].id # c
          THEN p_feedback(P, c, "Username \"" \o trimmedNewUsername
                 \o "\" is already taken.")
          ELSE IF Truthy(oldUsername)
          THEN p_emit(P3, {c}, "username updated", trimmedNewUsername)
          ELSE p_feedback(P, c, "You must set an initial username first."))

\* the body of the 'create room' handler, run on state P
p_onCreateRoom(P, c, name, pin) ==
  LET trimmedName == trim(name)
      trimmedPin == IF Truthy(Join(pin)) THEN trim(pin) ELSE NULL
      P1 == p_leaveCurrent(P, c)
      newRoom == [id |-> trimmedPin, name |-> trimmedName,
                  pin |-> trimmedPin,
                  history |-> << [type |-> "system",
                                  text |-> P.username[c]
                                    \o " created and joined the room.",
                                  timestamp |-> now] >>,
                  users |-> {c}]
      P2 == [P1 EXCEPT !.rooms = p_set(@, trimmedPin, newRoom),
                       !.io[c] = @ \cup {trimmedPin},
                       !.currentRoomId[c] = trimmedPin]
      P3 == p_emit(P2, {c}, "room joined success",
              [roomName |-> newRoom.name, roomId |-> newRoom.id,
               history |-> newRoom.history,
               usersInRoom |-> p_usernames(P2, newRoom.users)])
      P4 == p_emit(P3, InRoom(P3.io, trimmedPin), "update user list",
              p_usernames(P3, newRoom.users))
  IN IF ~Truthy(P.username[c])
     THEN p_feedback(P, c, "Please set your username first.")
     ELSE IF ~Truthy(trimmedName) \/ ~Truthy(trimmedPin)
     THEN p_feedback(P, c, "Room name and PIN cannot be empty.")
     ELSE IF p_has(P.rooms, trimmedPin)
     THEN p_feedback(P, c, "Room with PIN \"" \o trimmedPin
            \o "\" already exists.")
     ELSE p_emit(P4, Connected(P4.io), "update room list",
                 getRoomList(P4.rooms))

p_CreateRoom(c, name, pin) ==
  /\ PartLive(c)
  /\ PartCommit(p_onCreateRoom(PartState, c, name, pin))

p_JoinRoomByPin(c, pin) ==
  /\ PartLive(c)
  /\ LET P == PartState
         trimmedPin == trim(pin)
     IN PartCommit(
          IF ~Truthy(P.username[c])
          THEN p_feedback(P, c, "Please set your username first.")
          ELSE IF ~Truthy(trimmedPin)
          THEN p_feedback(P, c, "Please enter a room PIN/ID.")
          ELSE IF ~p_has(P.rooms, trimmedPin)
          THEN p_feedback(P, c, "Room not found with that PIN.")
          ELSE IF P.currentRoomId[c] = trimmedPin
          THEN p_feedback(P, c, "You are already in this room.")
          ELSE p_enter(p_leaveCurrent(P, c), c, trimmedPin))

\* p_onSwitchRoom without its third test: what forgetting the already-there
\* check would do.
p_onSwitchRoom_SkipsAlreadyThereTest(P, c, newRoomId) ==
  IF ~Truthy(P.username[c])
  THEN p_feedback(P, c, "Please set your username first.")
  ELSE IF ~p_has(P.rooms, newRoomId)
  THEN p_feedback(P, c, "Room not found.")
  ELSE p_enter(p_leaveCurrent(P, c), c, newRoomId)

\* the body of the 'switch room' handler, run on state P
p_onSwitchRoom(P, c, newRoomId) ==
  IF ~Truthy(P.username[c])
  THEN p_feedback(P, c, "Please set your username first.")
  ELSE IF ~p_has(P.rooms, newRoomId)
  THEN p_feedback(P, c, "Room not found.")
  ELSE IF P.currentRoomId[c] = newRoomId
  THEN p_feedback(P, c, "You are already in this room.")
  ELSE p_enter(p_leaveCurrent(P, c), c, newRoomId)

p_SwitchRoom(c, newRoomId) ==
  /\ PartLive(c)
  /\ PartCommit(p_onSwitchRoom(PartState, c, newRoomId))

p_LeaveCurrentRoom(c) ==
  /\ PartLive(c)
  /\ LET P == PartState
         cur == P.currentRoomId[c]
         P1 == [p_leaveCurrent(P, c) EXCEPT !.currentRoomId[c] = NULL]
     IN PartCommit(
          IF Truthy(cur) /\ p_has(P.rooms, cur)
          THEN p_emit(P1, {c}, "entered lobby", NULL)
          ELSE p_feedback(P, c, "You are not currently in a room."))

\* p_postEvent deciding by the room the payload names instead of the
\* socket's own: what trusting data.room in the test would do.
p_postEvent_TrustsPayloadRoom(P, c, kind, ev, data) ==
  LET payload == [room |-> data.room, user |-> P.username[c],
                  text |-> data.text, timestamp |-> data.timestamp,
                  type |-> kind]
  IN IF Truthy(P.username[c]) /\ p_has(P.rooms, data.room)
     THEN p_emit([P EXCEPT !.rooms[p_at(P.rooms, data.room)].history =
                              Append(@, payload)],
                 InRoom(P.io, data.room), ev, payload)
     ELSE P

\* 'chat message' (kind "message") and 'chat action' (kind "action")
p_postEvent(P, c, kind, ev, data) ==
  LET cur == P.currentRoomId[c]
      payload == [room |-> data.room, user |-> P.username[c],
                  text |-> data.text, timestamp |-> data.timestamp,
                  type |-> kind]
  IN IF Truthy(P.username[c]) /\ Truthy(cur) /\ p_has(P.rooms, cur)
     THEN p_emit([P EXCEPT !.rooms[p_at(P.rooms, cur)].history =
                              Append(@, payload)],
                 InRoom(P.io, data.room), ev, payload)
     ELSE P

p_ChatMessage(c, data) ==
  /\ PartLive(c)
  /\ PartCommit(p_postEvent(PartState, c, "message", "chat message", data))

p_ChatAction(c, data) ==
  /\ PartLive(c)
  /\ PartCommit(p_postEvent(PartState, c, "action", "chat action", data))

\* socket.on('disconnect'): the socket has already left every adapter room,
\* and socket.io drops the socket object when the handler returns.
p_Disconnect(c) ==
  /\ PartLive(c)
  /\ conn' = [conn EXCEPT ![c] = "gone"]
  /\ LET P == [PartState EXCEPT !.io[c] = {}]
         userIndex == p_findIndex(P.users, c)
         P1 == IF userIndex # 0
               THEN [P EXCEPT !.users =
                       SubSeq(@, 1, userIndex - 1)
                         \o SubSeq(@, userIndex + 1, Len(@))]
               ELSE P
         cur == P.currentRoomId[c]
         k == p_at(P.rooms, cur)
         P2 == [P1 EXCEPT !.rooms[k].users = @ \ {c}]
         P3 == p_emit(P2, InRoom(P2.io, cur), "chat message",
                 [room |-> cur, user |-> "System",
                  text |-> Show(P.username[c]) \o " has disconnected.",
                  timestamp |-> now])
         P4 == p_emit(P3, InRoom(P3.io, cur), "update user list",
                 p_usernames(P3, P3.rooms[k].users))
         P5 == [P4 EXCEPT !.rooms = p_delete(@, P4.rooms[k].id)]
         P6 == IF Truthy(cur) /\ p_has(P.rooms, cur)
               THEN IF p_emptyAndNotGeneral(P4.rooms[k])
                    THEN p_emit(P5, Connected(P5.io), "update room list",
                                getRoomList(P5.rooms))
                    ELSE P4
               ELSE P1
     IN /\ p_users' = P6.users
        /\ p_rooms' = P6.rooms
        /\ p_username' = [P6.username EXCEPT ![c] = NULL]
        /\ p_currentRoomId' = [P6.currentRoomId EXCEPT ![c] = NULL]
        /\ io' = P6.io
        /\ out' = Observed(P6.out)
  /\ UNCHANGED << variant, observe, now, serverVars >>

Payloads ==
  [room : PayloadRooms, text : Texts, timestamp : ClientTimestamps]

PartNext ==
  \/ \E c \in Conns : p_Connect(c)
  \/ \E c \in Conns, n \in RawUsernames : p_SetInitialUsername(c, n)
  \/ \E c \in Conns, n \in RawUsernames : p_ChangeUsername(c, n)
  \/ \E c \in Conns, d \in RawRooms : p_CreateRoom(c, d.name, d.pin)
  \/ \E c \in Conns, p \in RawPins : p_JoinRoomByPin(c, p)
  \/ \E c \in Conns, r \in RoomIdInputs : p_SwitchRoom(c, r)
  \/ \E c \in Conns : p_LeaveCurrentRoom(c)
  \/ \E c \in Conns, d \in Payloads : p_ChatMessage(c, d)
  \/ \E c \in Conns, d \in Payloads : p_ChatAction(c, d)
  \/ \E c \in Conns : p_Disconnect(c)

Init ==
  /\ variant \in {"server", "part"}
  /\ observe \in {"none", "all", "chat"}
  /\ conn = [c \in Conns |-> "new"]
  /\ now = 0
  /\ io = [c \in Conns |-> {}]
  /\ out = <<>>
  /\ users = << >>
  /\ rooms = [id \in {GENERAL_ROOM_ID} |->
                [name |-> "General", pin |-> NULL, history |-> <<>>,
                 usersInRoom |-> {}]]
  /\ userSocketRooms = << >>
  /\ p_users = << >>
  /\ p_rooms = << [id |-> "general", name |-> "General", pin |-> NULL,
                   history |-> <<>>, users |-> {}] >>
  /\ p_username = [c \in Conns |-> NULL]
  /\ p_currentRoomId = [c \in Conns |-> NULL]

Next == ServerNext \/ PartNext

\* Both programs, the notifications not kept.
BothInit == Init /\ observe = "none"
Spec == BothInit /\ [][Next]_vars

\* src/server.js alone
ServerInit == Init /\ variant = "server" /\ observe = "none"
ServerSpec == ServerInit /\ [][ServerNext]_vars

\* src/unnamed/part_000 alone
PartInit == Init /\ variant = "part" /\ observe = "none"
PartSpec == PartInit /\ [][PartNext]_vars

\* The same, with the notifications of the last handler kept in out.
OutInit == Init /\ observe = "all"
OutSpec == OutInit /\ [][Next]_vars

ServerOutInit == Init /\ variant = "server" /\ observe = "all"
ServerOutSpec == ServerOutInit /\ [][ServerNext]_vars

PartOutInit == Init /\ variant = "part" /\ observe = "all"
PartOutSpec == PartOutInit /\ [][PartNext]_vars

\* src/server.js with the chat events of the last handler kept in out
ServerChatInit == Init /\ variant = "server" /\ observe = "chat"
ServerChatSpec == ServerChatInit /\ [][ServerNext]_vars

\* =====================================================================
\* Properties
\* =====================================================================

\* live sessions of server.js whose currentRoomId is roomId
SessionsIn(roomId) == {c \in DOMAIN users : users[c].currentRoomId = roomId}

\* ids of the rooms of part_000
p_ids(rs) == {rs[i].id : i \in 1..Len(rs)}

\* C1: in server.js every room's usersInRoom is exactly the set of usernames
\* of the live sessions whose currentRoomId is that room.
C1_MembersAreSessionNames ==
  \A roomId \in DOMAIN rooms :
    rooms[roomId].usersInRoom = {users[c].username : c \in SessionsIn(roomId)}

\* C2: in server.js no two distinct live sessions that are both in a room
\* hold the same username.
C2_NamesUniqueInRooms ==
  \A c, d \in DOMAIN users :
    (/\ c # d
     /\ users[c].currentRoomId # NULL
     /\ users[d].currentRoomId # NULL)
    => users[c].username # users[d].username

\* C3: in server.js a set initial username or change username call gives a
\* connection a name only if no other live session holds that name (of two
\* calls for the same name, the second fails while the first winner is still
\* connected under that name).
C3_SecondClaimFails ==
  [][\A c \in DOMAIN users \cap DOMAIN users' :
       users'[c].username # users[c].username
       => \A d \in DOMAIN users \ {c} :
            users[d].username # users'[c].username]_vars

\* the feedback texts that report success
IsSuccessFeedback(text) ==
  \E d \in RawRooms : text = CreatedFeedback(trim(d.name), trim(d.pin))

\* the last notification of the handler is a rejection sent to one requester
EndsInRejection(o) ==
  /\ o # <<>>
  /\ o[Len(o)].ev \in {"room action feedback", "username rejected"}
  /\ Cardinality(o[Len(o)].to) = 1
  /\ ~IsSuccessFeedback(o[Len(o)].data)

\* C4: in server.js a handler that ends by sending the requester a rejection
\* feedback leaves the session registry and the room registry as they were.
C4_RejectionChangesNothing ==
  [][EndsInRejection(out') => (users' = users /\ rooms' = rooms)]_vars

\* C5: in server.js every room other than 'general' has at least one member.
C5_NoEmptyCreatedRoom ==
  \A roomId \in DOMAIN rooms \ {GENERAL_ROOM_ID} :
    rooms[roomId].usersInRoom # {}

\* room id of part_000 has a member
p_occupied(rs, id) == p_has(rs, id) /\ p_get(rs, id).users # {}

\* C6: in part_000, when the last member of a non-default room leaves it,
\* the room is removed in the same step and is in no room list afterwards.
C6_LastLeaverRemovesRoom ==
  [][\A id \in p_ids(p_rooms) \ {"general"} :
       (p_occupied(p_rooms, id) /\ ~p_occupied(p_rooms', id))
       => /\ ~p_has(p_rooms', id)
          /\ \A i \in 1..Len(p_rooms') : getRoomList(p_rooms')[i].id # id]_vars

\* C7: in both programs the room 'general' is always in the registry, with a
\* null pin.
C7_GeneralAlwaysThere ==
  /\ GENERAL_ROOM_ID \in DOMAIN rooms
  /\ rooms[GENERAL_ROOM_ID].pin = NULL
  /\ \E i \in 1..Len(p_rooms) : p_rooms[i].id = "general"
  /\ \A i \in 1..Len(p_rooms) :
       p_rooms[i].id = "general" => p_rooms[i].pin = NULL

\* C7 witness: server.js holds a room created with name and pin 'general',
\* 'general' itself is empty and a session has gone.
C7_Witness ==
  /\ \E roomId \in DOMAIN rooms \ {GENERAL_ROOM_ID} :
       rooms[roomId].name = "general" /\ rooms[roomId].pin = "general"
  /\ rooms[GENERAL_ROOM_ID].usersInRoom = {}
  /\ rooms[GENERAL_ROOM_ID].history # <<>>
  /\ \E c \in Conns : conn[c] = "gone"

\* C8: in both programs a session without a username has a null
\* currentRoomId and is in no room: not in the adapter's rooms, not in
\* userSocketRooms, not in a room's users.
C8_UnnamedInNoRoom ==
  /\ \A c \in DOMAIN users :
       users[c].username = NULL
       => /\ users[c].currentRoomId = NULL
          /\ userSocketRooms[c] = {}
          /\ io[c] \subseteq {SocketId(c)}
  /\ \A roomId \in DOMAIN rooms : NULL \notin rooms[roomId].usersInRoom
  /\ \A c \in Conns :
       (conn[c] = "live" /\ variant = "part" /\ p_username[c] = NULL)
       => /\ p_currentRoomId[c] = NULL
          /\ io[c] \subseteq {SocketId(c)}
          /\ \A i \in 1..Len(p_rooms) : c \notin p_rooms[i].users

\* C8 witness: in part_000 a session without a username is connected while
\* a room created by a named session exists (the unnamed session's own
\* create, join and switch requests were refused).
C8_Witness ==
  /\ variant = "part"
  /\ \E c, d \in Conns :
       /\ conn[c] = "live" /\ p_username[c] = NULL
       /\ conn[d] = "live" /\ p_currentRoomId[d] = "1234"
       /\ p_occupied(p_rooms, "1234")

\* C9: in both programs every non-null currentRoomId of a live session is
\* the id of a room in the registry.
C9_CurrentRoomExists ==
  /\ \A c \in DOMAIN users :
       users[c].currentRoomId # NULL
       => users[c].currentRoomId \in DOMAIN rooms
  /\ \A c \in Conns :
       (conn[c] = "live" /\ p_currentRoomId[c] # NULL)
       => p_has(p_rooms, p_currentRoomId[c])

\* C9 witness: in part_000 two sessions were in room '1234' (one created it,
\* the other joined), one of them has disconnected and the other is still in
\* the room.
C9_Witness ==
  /\ variant = "part"
  /\ \E c, d \in Conns :
       /\ conn[c] = "gone"
       /\ conn[d] = "live" /\ p_currentRoomId[d] = "1234"
       /\ p_has(p_rooms, "1234")
       /\ p_get(p_rooms, "1234").users = {d}
       /\ Len(p_get(p_rooms, "1234").history) = 2

\* C10: in server.js a create room by a named session with non-empty name
\* and pin ends with a new room whose members are exactly the creator's
\* name, the creator in it and out of the room it was in, and 'general'
\* still there.
C10_CreatorJoinsNewRoom ==
  [][\A c \in Conns, d \in RawRooms :
       (/\ CreateRoom(c, d.name, d.pin)
        /\ Truthy(users[c].username)
        /\ Truthy(trim(d.name)) /\ Truthy(trim(d.pin)))
       => \E roomId \in DOMAIN rooms' \ DOMAIN rooms :
            /\ rooms'[roomId].usersInRoom = {users[c].username}
            /\ users'[c].currentRoomId = roomId
            /\ \A old \in DOMAIN rooms :
                 users[c].currentRoomId = old
                 => (old \in DOMAIN rooms'
                     => users[c].username \notin rooms'[old].usersInRoom)
            /\ GENERAL_ROOM_ID \in DOMAIN rooms']_vars

\* live sessions of server.js that have a username
Named == {c \in DOMAIN users : Truthy(users[c].username)}

\* C11: in server.js a join room by pin from a named session whose trimmed
\* pin is non-empty and is the pin of a room ends with the session in that
\* room and its name among the room's members; when no room has the pin the
\* request is answered 'No room found' and both registries stay as they were.
C11_JoinBySecretJoins ==
  variant = "server" =>
  \A c \in Named, p \in RawPins :
    Truthy(trim(p)) =>
      LET S == onJoinRoomByPin(ServerState, c, p)
          found == findRoomByPin(rooms, trim(p))
      IN IF found # NULL
         THEN /\ S.users[c].currentRoomId = found
              /\ found \in DOMAIN S.rooms
              /\ users[c].username \in S.rooms[found].usersInRoom
         ELSE /\ S.users = users /\ S.rooms = rooms
              /\ S.out = << Emit({c}, "room action feedback",
                                  "No room found with that PIN.") >>

\* C12: in server.js a switch room from a named session to an existing room
\* that has a pin and is not the session's current room ends with the
\* session a member of that room, although no pin was given.
C12_SwitchNeedsNoSecret ==
  variant = "server" =>
  \A c \in Named, r \in DOMAIN rooms :
    (Truthy(rooms[r].pin) /\ users[c].currentRoomId # r)
    => LET S == onSwitchRoom(ServerState, c, r)
       IN /\ S.users[c].currentRoomId = r
          /\ r \in DOMAIN S.rooms
          /\ users[c].username \in S.rooms[r].usersInRoom

\* the notifications o are feedback to connection c and to nobody else
OnlyFeedbackTo(o, c) ==
  \A i \in 1..Len(o) : o[i].ev = "room action feedback" /\ o[i].to = {c}

\* C13: in both programs a switch room to the room the session is in changes
\* nothing: the sessions, the rooms with their members and histories and the
\* adapter's rooms are as before, and the only notification is feedback to
\* the requester.
C13_SwitchToOwnRoomIsNoOp ==
  /\ variant = "server" =>
       \A c \in DOMAIN users :
         users[c].currentRoomId # NULL =>
           LET S == onSwitchRoom(ServerState, c, users[c].currentRoomId)
           IN /\ S.users = users
              /\ S.rooms = rooms
              /\ S.userSocketRooms = userSocketRooms
              /\ S.io = io
              /\ OnlyFeedbackTo(S.out, c)
  /\ variant = "part" =>
       \A c \in Conns :
         (conn[c] = "live" /\ p_currentRoomId[c] # NULL) =>
           LET P == p_onSwitchRoom(PartState, c, p_currentRoomId[c])
           IN /\ P.users = p_users
              /\ P.rooms = p_rooms
              /\ P.username = p_username
              /\ P.currentRoomId = p_currentRoomId
              /\ P.io = io
              /\ OnlyFeedbackTo(P.out, c)

\* C13 witness: in part_000 two sessions share room '1234' and the switch
\* room of one of them to '1234' is answered 'You are already in this room.'
C13_Witness ==
  /\ variant = "part"
  /\ \E c, d \in Conns :
       /\ c # d
       /\ p_currentRoomId[c] = "1234" /\ p_currentRoomId[d] = "1234"
       /\ p_get(p_rooms, "1234").users = {c, d}
       /\ p_onSwitchRoom(PartState, c, "1234").out =
            << Emit({c}, "room action feedback",
                    "You are already in this room.") >>

\* sessions of part_000 that can post: named and in a room the Map has
p_Posters ==
  {c \in Conns : /\ conn[c] = "live"
                 /\ Truthy(p_username[c])
                 /\ Truthy(p_currentRoomId[c])
                 /\ p_has(p_rooms, p_currentRoomId[c])}

\* C14: in part_000 a chat message or chat action from a named session in a
\* room adds one event at the end of that room's history and is delivered to
\* exactly the connections in that room, the sender among them, whatever
\* room the payload names.
C14_PostStaysInSendersRoom ==
  variant = "part" =>
  \A c \in p_Posters, d \in Payloads,
     k \in { <<"message", "chat message">>, <<"action", "chat action">> } :
    LET cur == p_currentRoomId[c]
        P == p_postEvent(PartState, c, k[1], k[2], d)
        before == p_get(p_rooms, cur).history
        after == p_get(P.rooms, cur).history
    IN /\ Len(after) = Len(before) + 1
       /\ SubSeq(after, 1, Len(before)) = before
       /\ after[Len(after)].text = d.text
       /\ Len(P.out) = 1
       /\ P.out[1].ev = k[2]
       /\ P.out[1].to = p_get(p_rooms, cur).users
       /\ c \in P.out[1].to

\* the two kinds of post, with the event each is sent as
PostKinds == { <<"message", "chat message">>, <<"action", "chat action">> }

\* C15: in both programs a chat message or chat action from a session that
\* has no username or no current room is dropped: the sessions, the rooms
\* and their histories stay as they were and nothing is sent to anyone.
C15_PostFromNowhereIsDropped ==
  /\ variant = "server" =>
       \A c \in DOMAIN users :
         (~Truthy(users[c].username) \/ users[c].currentRoomId = NULL) =>
           \A k \in PostKinds, t \in Texts, ts \in ClientTimestamps :
             postEvent(ServerState, c, k[1], k[2], t, ts) = ServerState
  /\ variant = "part" =>
       \A c \in Conns :
         (/\ conn[c] = "live"
          /\ ~Truthy(p_username[c]) \/ p_currentRoomId[c] = NULL) =>
           \A k \in PostKinds, d \in Payloads :
             p_postEvent(PartState, c, k[1], k[2], d) = PartState

\* C15 witness: in part_000 a named session is back in the lobby while
\* another session is in 'general', and its chat message naming 'general'
\* leaves the state as it is and sends nothing.
C15_Witness ==
  /\ variant = "part"
  /\ \E c, d \in Conns :
       /\ conn[c] = "live" /\ Truthy(p_username[c])
       /\ p_currentRoomId[c] = NULL
       /\ p_currentRoomId[d] = "general"
       /\ p_get(p_rooms, "general").history # <<>>
       /\ LET P == p_postEvent(PartState, c, "message", "chat message",
                     [room |-> "general", text |-> "hi", timestamp |-> 0])
          IN P.out = <<>> /\ P.rooms = p_rooms

\* two pins a room may be created with
SecretPins == { <<"1234">>, <<"5678">> }

\* the room lists among the notifications o
RoomLists(o) ==
  LET IsRoomList(e) == e.ev = "update room list" IN SelectSeq(o, IsRoomList)

\* C16: in part_000 no room list shows a room's pin: a create room gives
\* the same room list notifications whichever pin the room is created with,
\* and no id in the room list of the registry is the room's pin.
C16_RoomListHidesPin ==
  variant = "part" =>
  /\ \A c \in Conns, d \in RawRooms, p1, p2 \in SecretPins :
       (conn[c] = "live" /\ Truthy(p_username[c]) /\ Truthy(trim(d.name))
        /\ ~p_has(p_rooms, trim(p1)) /\ ~p_has(p_rooms, trim(p2)))
       => RoomLists(p_onCreateRoom(PartState, c, d.name, p1).out)
            = RoomLists(p_onCreateRoom(PartState, c, d.name, p2).out)
  /\ \A i \in 1..Len(p_rooms) :
       Truthy(p_rooms[i].pin)
       => getRoomList(p_rooms)[i].id # p_rooms[i].pin

\* the chat events among the notifications o that connection c receives
\* for room r, by their text, in the order sent
DeliveredTo(o, c, r) ==
  LET Mine(e) == IsChat(e) /\ c \in e.to /\ e.data.room = r
      mine == SelectSeq(o, Mine)
  IN [i \in 1..Len(mine) |-> mine[i].data.text]

\* the entries of history h after the first n, by their text
AppendedTo(h, n) == [i \in 1..(Len(h) - n) |-> h[n + i].text]

\* C17: in server.js the history of a room that stays in the registry only
\* grows at its end, and every connection that is in the room before and
\* after a handler receives the room's new chat and system events in the
\* order of the history, so that any two such connections receive them in
\* the same order.
C17_HistoryOrderIsDeliveryOrder ==
  [][\A r \in DOMAIN rooms \cap DOMAIN rooms' :
       LET old == rooms[r].history
           new == rooms'[r].history
       IN /\ Len(old) <= Len(new)
          /\ SubSeq(new, 1, Len(old)) = old
          /\ \A c \in DOMAIN users \cap DOMAIN users' :
               (users[c].currentRoomId = r /\ users'[c].currentRoomId = r)
               => DeliveredTo(out', c, r) = AppendedTo(new, Len(old))]_vars

\* C17 witness: two connections are in 'general', its history holds their
\* two joins and a post, and the post has just been delivered to both.
C17_Witness ==
  /\ variant = "server"
  /\ Len(rooms[GENERAL_ROOM_ID].history) = 3
  /\ rooms[GENERAL_ROOM_ID].history[3].type \in {"message", "action"}
  /\ \E c, d \in DOMAIN users :
       /\ c # d
       /\ users[c].currentRoomId = GENERAL_ROOM_ID
       /\ users[d].currentRoomId = GENERAL_ROOM_ID
       /\ DeliveredTo(out, c, GENERAL_ROOM_ID) = << "hi" >>
       /\ DeliveredTo(out, d, GENERAL_ROOM_ID) = << "hi" >>

\* the system line leaveRoom records for username
LeftText(username) == "<strong>" \o Show(username) \o "</strong> has left the room."

\* C18: in server.js the disconnect of a session that is in a room removes
\* the session from the registry, removes its name from the members of that
\* room, adds a system 'left' line at the end of the room's history, and
\* deletes the room exactly when it is then empty and not 'general'.
C18_DisconnectLeavesThenRemoves ==
  [][\A c \in DOMAIN users :
       (/\ conn[c] = "live" /\ conn'[c] = "gone"
        /\ users[c].currentRoomId # NULL)
       => LET r == users[c].currentRoomId
              name == users[c].username
          IN /\ c \notin DOMAIN users'
             /\ r \in DOMAIN rooms
             /\ r \notin DOMAIN rooms'
                  <=> (rooms[r].usersInRoom \ {name} = {}
                       /\ r # GENERAL_ROOM_ID)
             /\ r \in DOMAIN rooms'
                  => /\ name \notin rooms'[r].usersInRoom
                     /\ Len(rooms'[r].history) = Len(rooms[r].history) + 1
                     /\ SubSeq(rooms'[r].history, 1, Len(rooms[r].history))
                          = rooms[r].history
                     /\ rooms'[r].history[Len(rooms'[r].history)].type
                          = "system"
                     /\ rooms'[r].history[Len(rooms'[r].history)].text
                          = LeftText(name)]_vars

\* C18 witness: a session that was in 'general' has disconnected: it is out
\* of the registry, 'general' has no members and its history ends with the
\* session's 'left' line.
C18_Witness ==
  /\ variant = "server"
  /\ \E c \in Conns : conn[c] = "gone" /\ c \notin DOMAIN users
  /\ rooms[GENERAL_ROOM_ID].usersInRoom = {}
  /\ Len(rooms[GENERAL_ROOM_ID].history) = 2
  /\ \E n \in RawUsernames :
       rooms[GENERAL_ROOM_ID].history[2].text = LeftText(trim(n))

\* C19: in part_000, once a session has disconnected, a name that no live
\* session holds or has an entry for in the users array is free: a set
\* initial username asking for it is accepted from any live connection.
C19_NamesOfTheGoneAreFree ==
  (variant = "part" /\ \E g \in Conns : conn[g] = "gone") =>
  \A n \in RawUsernames, c \in Conns :
    (/\ conn[c] = "live"
     /\ Truthy(trim(n))
     /\ \A d \in Conns : conn[d] = "live" => p_username[d] # trim(n)
     /\ \A i \in 1..Len(p_users) :
          conn[p_users[i].id] = "live" => p_users[i].username # trim(n))
    => LET P == p_onSetInitialUsername(PartState, c, n)
       IN /\ P.username[c] = trim(n)
          /\ P.out[1] = Emit({c}, "username accepted", trim(n))

\* C20: in server.js a set initial username is accepted exactly when the
\* trimmed name is non-empty and no other session that is in a room holds
\* it; when accepted the session's username becomes the trimmed name, and
\* otherwise it stays as it was.
C20_ClaimAcceptedIffFree ==
  variant = "server" =>
  \A c \in DOMAIN users, n \in RawUsernames :
    LET S == onSetInitialUsername(ServerState, c, n)
        free == /\ Truthy(trim(n))
                /\ ~\E d \in DOMAIN users \ {c} :
                      /\ users[d].username = trim(n)
                      /\ users[d].currentRoomId # NULL
        accepted == S.out[1] = Emit({c}, "username accepted", trim(n))
    IN /\ accepted <=> free
       /\ accepted => S.users[c].username = trim(n)
       /\ ~accepted => S.users[c].username = users[c].username

\* C21: in server.js a change username from a session that has no username
\* yet is refused: the session's username stays unset and no 'username
\* updated' is sent.
C21_RenameNeedsAName ==
  variant = "server" =>
  \A c \in DOMAIN users, n \in RawUsernames :
    ~Truthy(users[c].username) =>
      LET S == onChangeUsername(ServerState, c, n)
      IN /\ S.users[c].username = NULL
         /\ \A i \in 1..Len(S.out) : S.out[i].ev = "room action feedback"

\* C22: in server.js a create room from a session that has no username is
\* refused: the room registry stays as it was, no room list is sent, and
\* the requester gets feedback that is not the 'created successfully' one.
C22_CreateNeedsAName ==
  variant = "server" =>
  \A c \in DOMAIN users, d \in RawRooms :
    ~Truthy(users[c].username) =>
      LET S == onCreateRoom(ServerState, c, d.name, d.pin)
      IN /\ S.rooms = rooms
         /\ availableRooms(S.rooms) = availableRooms(rooms)
         /\ \A i \in 1..Len(S.out) :
              /\ S.out[i].ev = "room action feedback"
              /\ S.out[i].to = {c}
              /\ ~IsSuccessFeedback(S.out[i].data)

\* the system line a rename from old to new records
RenameText(old, new) ==
  "<strong>" \o old \o "</strong> is now <strong>" \o new \o "</strong>."

\* C23: in server.js an accepted change username from a session in a room
\* puts the new name in place of the old one in that room's members, adds
\* exactly one system line at the end of that room's history, and leaves the
\* session's currentRoomId, the other sessions and every other room as they
\* were.
C23_RenameSwapsNameInRoom ==
  variant = "server" =>
  \A c \in DOMAIN users, n \in RawUsernames :
    users[c].currentRoomId # NULL =>
      LET S == onChangeUsername(ServerState, c, n)
          r == users[c].currentRoomId
          old == users[c].username
          new == trim(n)
      IN S.out[1].ev = "username updated" =>
           /\ S.users[c] = [username |-> new, currentRoomId |-> r]
           /\ \A d \in DOMAIN users \ {c} : S.users[d] = users[d]
           /\ DOMAIN S.rooms = DOMAIN rooms
           /\ S.rooms[r].usersInRoom
                = (rooms[r].usersInRoom \ {old}) \cup {new}
           /\ Len(S.rooms[r].history) = Len(rooms[r].history) + 1
           /\ SubSeq(S.rooms[r].history, 1, Len(rooms[r].history))
                = rooms[r].history
           /\ S.rooms[r].history[Len(S.rooms[r].history)].type = "system"
           /\ S.rooms[r].history[Len(S.rooms[r].history)].text
                = RenameText(old, new)
           /\ \A q \in DOMAIN rooms \ {r} : S.rooms[q] = rooms[q]

\* C23 witness: a session in 'general' has been renamed from alice to bob:
\* the room's members are {bob} and its history ends with the rename line.
C23_Witness ==
  /\ variant = "server"
  /\ rooms[GENERAL_ROOM_ID].usersInRoom = {"bob"}
  /\ Len(rooms[GENERAL_ROOM_ID].history) = 2
  /\ rooms[GENERAL_ROOM_ID].history[2].text = RenameText("alice", "bob")
  /\ \E c \in DOMAIN users :
       users[c] = [username |-> "bob", currentRoomId |-> GENERAL_ROOM_ID]

\* C24: in server.js every create room with a non-empty name and pin from a
\* named session registers a room under an id the registry did not have,
\* leaves the rooms already there as they were, and is not answered 'Room ID
\* already exists', however close in time the requests arrive.
C24_RoomIdsNeverCollide ==
  variant = "server" =>
  \A c \in Named, d \in RawRooms :
    (Truthy(trim(d.name)) /\ Truthy(trim(d.pin))) =>
      LET S == onCreateRoom(ServerState, c, d.name, d.pin)
      IN /\ Cardinality(DOMAIN S.rooms \ DOMAIN rooms) = 1
         /\ \A r \in DOMAIN rooms : r \in DOMAIN S.rooms /\ S.rooms[r] = rooms[r]
         /\ \A i \in 1..Len(S.out) :
              S.out[i].ev = "room action feedback"
              => S.out[i].data
                   # "Failed to create room: Room ID already exists."

\* C25: in server.js an accepted set initial username ends with the session
\* in 'general': its currentRoomId is 'general' and the accepted name is
\* among the members of 'general'.
C25_AcceptedNameIsInGeneral ==
  variant = "server" =>
  \A c \in DOMAIN users, n \in RawUsernames :
    LET S == onSetInitialUsername(ServerState, c, n)
    IN S.out[1] = Emit({c}, "username accepted", trim(n)) =>
         /\ S.users[c].currentRoomId = GENERAL_ROOM_ID
         /\ trim(n) \in S.rooms[GENERAL_ROOM_ID].usersInRoom

\* the chat events among the notifications o sent for room r, by their
\* text, in the order sent
SentFor(o, r) ==
  LET Mine(e) == IsChat(e) /\ e.data.room = r
      mine == SelectSeq(o, Mine)
  IN [i \in 1..Len(mine) |-> mine[i].data.text]

\* the system line joinRoom records for username
JoinedText(username) ==
  "<strong>" \o username \o "</strong> has joined the room."

\* C26: in server.js the system, message and action events a handler sends
\* for a room are exactly the entries it adds to that room's history, in the
\* same order (so that a history, empty at creation, is at any time the
\* sequence of all events sent for the room), and the history sent to a
\* joiner in 'room joined success' is the room's history, ending with the
\* joiner's own 'joined' line.
C26_HistoryIsWhatWasSent ==
  [][\A r \in DOMAIN rooms' :
       LET before == IF r \in DOMAIN rooms THEN Len(rooms[r].history) ELSE 0
           h == rooms'[r].history
       IN /\ SentFor(out', r) = AppendedTo(h, before)
          /\ \A i \in 1..Len(out') :
               (out'[i].ev = "room joined success" /\ out'[i].data.roomId = r)
               => /\ out'[i].data.history = h
                  /\ h # <<>>
                  /\ h[Len(h)].type = "system"
                  /\ \E c \in out'[i].to :
                       h[Len(h)].text = JoinedText(users'[c].username)]_vars

\* C26 witness: a second session has just joined 'general': it was sent the
\* two-line history and the session already there was sent the join line.
C26_Witness ==
  /\ variant = "server"
  /\ Len(rooms[GENERAL_ROOM_ID].history) = 2
  /\ \E i, j \in 1..Len(out) :
       /\ out[i].ev = "room joined success"
       /\ Len(out[i].data.history) = 2
       /\ out[j].ev = "chat message"
       /\ out[j].to # {} /\ out[j].to # out[i].to
       /\ out[j].data.text = out[i].data.history[2].text

\* C27: in server.js a leave current room from a session in 'general' is
\* refused: the state stays as it was and the only notification is the
\* 'cannot leave' feedback to the requester; from a session with no current
\* room it is refused the same way with the 'not in a room' feedback.
C27_LeaveGeneralIsRefused ==
  variant = "server" =>
  \A c \in DOMAIN users :
    users[c].currentRoomId \in {GENERAL_ROOM_ID, NULL} =>
      onLeaveCurrentRoom(ServerState, c) =
        feedback(ServerState, c,
          IF users[c].currentRoomId = GENERAL_ROOM_ID
          THEN "You cannot leave the General room. You can only switch to another room."
          ELSE "You are not currently in a room to leave.")

\* C27 witness: one session is in 'general' with another, a leave by either
\* is answered 'cannot leave', and 'general' holds both joins.
C27_Witness ==
  /\ variant = "server"
  /\ Len(rooms[GENERAL_ROOM_ID].history) = 2
  /\ Cardinality(rooms[GENERAL_ROOM_ID].usersInRoom) = 2
  /\ \E c \in DOMAIN users :
       /\ users[c].currentRoomId = GENERAL_ROOM_ID
       /\ onLeaveCurrentRoom(ServerState, c).out =
            << Emit({c}, "room action feedback",
                    "You cannot leave the General room. You can only switch to another room.") >>
       /\ onLeaveCurrentRoom(ServerState, c).rooms = rooms

====
